---- MODULE Spec2Model ----
(***************************************************************************)
(* Website Content Search (backend/app/main.py): the token-bounded         *)
(* chunker, the same-domain link discoverer, the deduplicating retriever   *)
(* and the /search request handler with its "already indexed" probe.       *)
(*                                                                         *)
(* Text is a sequence of one-character strings over a three-letter         *)
(* alphabet: "a" stands for a \w character, "." for a character that is    *)
(* neither \w nor \s, " " for a \s character.                              *)
(***************************************************************************)
EXTENDS Integers, Sequences, FiniteSets, TLC

VARIABLES
    \* chunk_by_token_limit
    snippets, limit, snip_i, chunks, buf, buf_tokens, chunk_pc,
    chunk_src, buf_src,
    \* same_domain_links
    start_url, anchors, page_limit, anchor_i, seen, q, links_pc,
    \* search_top_k
    matches, top_k, rank_i, seen_keys, uniq, rank_pc,
    \* the vector store and the /search handler
    index_exists, store, call_no, pc, req_url, start_html, urls, url_i, results,
    response, fail_at, fetches, upserts, indexed, store_failed,
    pages_failed, pages_ok

chunker_vars == <<snippets, limit, snip_i, chunks, buf, buf_tokens, chunk_pc,
                  chunk_src, buf_src>>

links_vars == <<start_url, anchors, page_limit, anchor_i, seen, q, links_pc>>

rank_vars == <<matches, top_k, rank_i, seen_keys, uniq, rank_pc>>

search_vars == <<index_exists, store, call_no, pc, req_url, start_html, urls,
                 url_i, results, response, fail_at, fetches, upserts, indexed,
                 store_failed, pages_failed, pages_ok>>

vars == <<chunker_vars, links_vars, rank_vars, search_vars>>

-----------------------------------------------------------------------------
(* Bounds of the model *)

\* total number of characters in the block list handed to the chunker
MaxTotalLen == 5
\* largest token limit tried for the chunker
MaxLimit == 2
\* number of anchors in the start page
MaxAnchors == 3
\* largest page budget tried for the link discoverer
MaxBudget == 3
\* largest top_k tried for the retriever, and the longest match list
MaxTopK == 2
MaxMatches == 5
\* the length of the deduplication prefix; the program's slice is [:200]
\* (line 169), scaled to the length of the modelled fragment contents
PrefixLen == 2
\* successive /search requests for the same site
MaxCalls == 2
\* the configuration the handler runs under (lines 21-23 read it from the
\* environment; the defaults are 500, 10 and 6)
CHUNK_TOKEN_LIMIT == 2
TOP_K == 2
MAX_PAGES == 3

-----------------------------------------------------------------------------
(* Text primitives *)

Chars == {"a", ".", " "}

IsSpace(c) == c = " "
IsWordChar(c) == c = "a"

Min(a, b) == IF a < b THEN a ELSE b

TextsOfLen(k) == [1..k -> Chars]

\* str.strip(): leading and trailing whitespace removed
RECURSIVE LStrip(_)
LStrip(s) ==
    IF s = <<>> THEN <<>>
    ELSE IF IsSpace(Head(s)) THEN LStrip(Tail(s)) ELSE s

RECURSIVE RStrip(_)
RStrip(s) ==
    IF s = <<>> THEN <<>>
    ELSE IF IsSpace(s[Len(s)]) THEN RStrip(SubSeq(s, 1, Len(s) - 1)) ELSE s

Strip(s) == RStrip(LStrip(s))

\* sep.join(parts)
RECURSIVE Join(_, _)
Join(parts, sep) ==
    IF parts = <<>> THEN <<>>
    ELSE IF Len(parts) = 1 THEN parts[1]
    ELSE parts[1] \o sep \o Join(Tail(parts), sep)

\* len(re.findall(r"\w+|[^\w\s]", text)): every maximal run of \w characters
\* is one token, every other non-space character is one token
tokenize_len(text) ==
    Cardinality({i \in 1..Len(text) :
        \/ ~IsSpace(text[i]) /\ ~IsWordChar(text[i])
        \/ IsWordChar(text[i]) /\ (i = 1 \/ ~IsWordChar(text[i - 1]))})

\* length of the longest prefix of s whose characters all satisfy / all
\* fail IsSpace
RECURSIVE SpanLen(_, _)
SpanLen(s, space) ==
    IF s = <<>> \/ IsSpace(Head(s)) # space THEN 0
    ELSE 1 + SpanLen(Tail(s), space)

\* re.findall(r"\S+\s*", snip): each maximal non-space run together with the
\* whitespace that follows it; whitespace before the first run is unmatched
RECURSIVE Words(_)
Words(snip) ==
    LET s == LStrip(snip)
    IN  IF s = <<>> THEN <<>>
        ELSE LET n == SpanLen(s, FALSE)
                 rest == SubSeq(s, n + 1, Len(s))
                 m == SpanLen(rest, TRUE)
             IN  <<SubSeq(s, 1, n + m)>> \o Words(SubSeq(rest, m + 1, Len(rest)))

\* A URL is its scheme, its netloc and its path; an anchor target has an empty
\* scheme or netloc where the reference leaves them out, and the path "b" is
\* a relative reference.
Url(s, n, p) == [scheme |-> s, netloc |-> n, path |-> p]

\* no page fetched yet
NoHtml == [anchors |-> <<>>, snippets |-> <<>>, broken |-> FALSE]

-----------------------------------------------------------------------------
(* chunk_by_token_limit *)

\* line 104: the word does not fit the sub-chunk being packed
WordOverflows(tmp_tokens, wt, lim, tmp) == tmp_tokens + wt > lim /\ tmp # <<>>

\* line 110: the block does not fit the accumulation buffer
BlockOverflowsLate(tokens, t, lim, pending) == tokens > lim /\ pending # <<>>

BlockOverflows(tokens, t, lim, pending) == tokens + t > lim /\ pending # <<>>

\* lines 102-108: the sub-chunks of an oversized block, from word i on, with
\* tmp / tmp_tokens the sub-chunk being packed
RECURSIVE PackWordsDropping(_, _, _, _, _)
PackWordsDropping(words, i, tmp, tmp_tokens, lim) ==
    IF i > Len(words)
    THEN IF tmp # <<>> THEN <<Strip(Join(tmp, <<>>))>> ELSE <<>>
    ELSE LET w == words[i]
             wt == tokenize_len(w)
         IN  IF WordOverflows(tmp_tokens, wt, lim, tmp)
             THEN <<Strip(Join(tmp, <<>>))>>
                      \o PackWordsDropping(words, i + 1, <<>>, 0, lim)
             ELSE PackWordsDropping(words, i + 1, Append(tmp, w), tmp_tokens + wt, lim)

RECURSIVE PackWords(_, _, _, _, _)
PackWords(words, i, tmp, tmp_tokens, lim) ==
    IF i > Len(words)
    THEN IF tmp # <<>> THEN <<Strip(Join(tmp, <<>>))>> ELSE <<>>
    ELSE LET w == words[i]
             wt == tokenize_len(w)
         IN  IF WordOverflows(tmp_tokens, wt, lim, tmp)
             THEN <<Strip(Join(tmp, <<>>))>> \o PackWords(words, i + 1, <<w>>, wt, lim)
             ELSE PackWords(words, i + 1, Append(tmp, w), tmp_tokens + wt, lim)

\* lines 100-101: an oversized block split on its own
SplitOversized(snip, lim) == PackWords(Words(snip), 1, <<>>, 0, lim)

\* lines 96-115 as one function of the block list: the loop from block i on
RECURSIVE ChunkLoop(_, _, _, _, _, _)
ChunkLoop(snips, i, out, pending, tokens, lim) ==
    IF i > Len(snips)
    THEN IF pending # <<>> THEN Append(out, Strip(Join(pending, <<" ">>))) ELSE out
    ELSE LET snip == snips[i]
             t == tokenize_len(snip)
         IN  IF t > lim
             THEN ChunkLoop(snips, i + 1, out \o SplitOversized(snip, lim),
                            pending, tokens, lim)
             ELSE IF BlockOverflows(tokens, t, lim, pending)
             THEN ChunkLoop(snips, i + 1,
                            Append(out, Strip(Join(pending, <<" ">>))),
                            <<snip>>, t, lim)
             ELSE ChunkLoop(snips, i + 1, out, Append(pending, snip), tokens + t, lim)

chunk_by_token_limit(snips, lim) == ChunkLoop(snips, 1, <<>>, <<>>, 0, lim)

\* every block list whose blocks are non-empty and hold n characters at most
RECURSIVE BlockLists(_)
BlockLists(n) ==
    {<<>>} \cup
    UNION { {<<b>> \o rest : b \in TextsOfLen(k), rest \in BlockLists(n - k)} :
            k \in 1..n }

\* line 96, for every argument of the call
ChunkerInit ==
    /\ snippets \in BlockLists(MaxTotalLen)
    /\ limit \in 1..MaxLimit
    /\ snip_i = 1
    /\ chunks = <<>>
    /\ buf = <<>>
    /\ buf_tokens = 0
    /\ chunk_pc = "loop"
    /\ chunk_src = <<>>
    /\ buf_src = {}
    \* the other components are idle
    /\ start_url = Url("http", "h", "/") /\ anchors = <<>> /\ page_limit = 1
    /\ anchor_i = 1 /\ seen = {} /\ q = <<>> /\ links_pc = "idle"
    /\ matches = <<>> /\ top_k = 1 /\ rank_i = 1 /\ seen_keys = {} /\ uniq = <<>>
    /\ rank_pc = "idle"
    /\ index_exists = FALSE /\ store = {} /\ call_no = 1 /\ pc = "idle"
    /\ req_url = Url("http", "h", "/") /\ start_html = NoHtml /\ urls = <<>>
    /\ url_i = 1 /\ results = <<>> /\ response = <<>> /\ fail_at = "none"
    /\ fetches = <<>> /\ upserts = <<>> /\ indexed = <<>> /\ store_failed = <<>>
    /\ pages_failed = {} /\ pages_ok = {}

\* lines 99-109: the block is larger than the limit; its sub-chunks go to the
\* output and the buffer is left as it is
ChunkOversized ==
    /\ chunk_pc = "loop"
    /\ snip_i <= Len(snippets)
    /\ LET snip == snippets[snip_i]
           t == tokenize_len(snip)
           subs == SplitOversized(snip, limit)
       IN  /\ t > limit
           /\ chunks' = chunks \o subs
           /\ chunk_src' = chunk_src \o [k \in 1..Len(subs) |-> {snip_i}]
    /\ snip_i' = snip_i + 1
    /\ UNCHANGED <<snippets, limit, buf, buf_tokens, chunk_pc, buf_src>>
    /\ UNCHANGED <<links_vars, rank_vars, search_vars>>

\* lines 110-111: the buffer is emitted and restarted with the block
ChunkFlush ==
    /\ chunk_pc = "loop"
    /\ snip_i <= Len(snippets)
    /\ LET snip == snippets[snip_i]
           t == tokenize_len(snip)
       IN  /\ ~(t > limit)
           /\ BlockOverflows(buf_tokens, t, limit, buf)
           /\ chunks' = Append(chunks, Strip(Join(buf, <<" ">>)))
           /\ chunk_src' = Append(chunk_src, buf_src)
           /\ buf' = <<snip>>
           /\ buf_tokens' = t
           /\ buf_src' = {snip_i}
    /\ snip_i' = snip_i + 1
    /\ UNCHANGED <<snippets, limit, chunk_pc>>
    /\ UNCHANGED <<links_vars, rank_vars, search_vars>>

\* lines 112-113: the block joins the buffer
ChunkAppend ==
    /\ chunk_pc = "loop"
    /\ snip_i <= Len(snippets)
    /\ LET snip == snippets[snip_i]
           t == tokenize_len(snip)
       IN  /\ ~(t > limit)
           /\ ~BlockOverflows(buf_tokens, t, limit, buf)
           /\ buf' = Append(buf, snip)
           /\ buf_tokens' = buf_tokens + t
           /\ buf_src' = buf_src \cup {snip_i}
    /\ snip_i' = snip_i + 1
    /\ UNCHANGED <<snippets, limit, chunks, chunk_pc, chunk_src>>
    /\ UNCHANGED <<links_vars, rank_vars, search_vars>>

\* lines 114-115: the remaining buffer is emitted and the list returned
ChunkReturn ==
    /\ chunk_pc = "loop"
    /\ snip_i > Len(snippets)
    /\ IF buf # <<>>
       THEN /\ chunks' = Append(chunks, Strip(Join(buf, <<" ">>)))
            /\ chunk_src' = Append(chunk_src, buf_src)
       ELSE UNCHANGED <<chunks, chunk_src>>
    /\ chunk_pc' = "done"
    /\ UNCHANGED <<snippets, limit, snip_i, buf, buf_tokens, buf_src>>
    /\ UNCHANGED <<links_vars, rank_vars, search_vars>>

ChunkerNext == ChunkOversized \/ ChunkFlush \/ ChunkAppend \/ ChunkReturn

-----------------------------------------------------------------------------
(* Properties of the chunker *)

\* the text with every whitespace character removed
Squeeze(s) == SelectSeq(s, LAMBDA c : ~IsSpace(c))

\* the chunk is one whitespace-delimited word fragment
IsOneFragment(chunk) ==
    chunk # <<>> /\ \A i \in 1..Len(chunk) : ~IsSpace(chunk[i])

\* chunk k holds text of block i
HoldsTextOf(k, i) == i \in chunk_src[k] /\ tokenize_len(snippets[i]) > 0

\* C1: every chunk emitted so far has at most `limit` tokens, unless it is a
\* single word fragment whose own token count exceeds the limit.
C1_ChunkWithinLimit ==
    \A k \in 1..Len(chunks) :
        \/ tokenize_len(chunks[k]) <= limit
        \/ IsOneFragment(chunks[k])

\* a finished run that emitted a lone oversized fragment and, beside it, a
\* chunk merged from two blocks that fills the limit exactly
C1_Witness ==
    /\ chunk_pc = "done"
    /\ \E k \in 1..Len(chunks) :
           tokenize_len(chunks[k]) > limit /\ IsOneFragment(chunks[k])
    /\ \E k \in 1..Len(chunks) :
           tokenize_len(chunks[k]) = limit /\ Cardinality(chunk_src[k]) = 2

\* C2: in the returned list no chunk holding text of a later block stands
\* before a chunk holding text of an earlier block.
C2_OrderPreserved ==
    chunk_pc = "done" =>
        \A k1, k2 \in 1..Len(chunks) :
            \A i, j \in 1..Len(snippets) :
                (k1 < k2 /\ HoldsTextOf(k1, j) /\ HoldsTextOf(k2, i)) => ~(i < j)

\* every word of the block is a single token
SingleTokenWords(snip) ==
    \A k \in 1..Len(Words(snip)) : tokenize_len(Words(snip)[k]) = 1

\* C9: a single oversized block comes back as sub-chunks whose concatenation,
\* whitespace aside, is the block's text; when its words are single tokens
\* and it holds at most twice the limit, as exactly two sub-chunks, each
\* within the limit.
C9_SplitReproducesBlock ==
    (chunk_pc = "done" /\ Len(snippets) = 1 /\ tokenize_len(snippets[1]) > limit) =>
        /\ Squeeze(Join(chunks, <<>>)) = Squeeze(snippets[1])
        /\ (SingleTokenWords(snippets[1]) /\ tokenize_len(snippets[1]) <= 2 * limit) =>
               /\ Len(chunks) = 2
               /\ \A k \in 1..2 : tokenize_len(chunks[k]) <= limit

\* three one-token words under a limit of two: two sub-chunks
C9_Witness ==
    /\ chunk_pc = "done"
    /\ Len(snippets) = 1
    /\ limit = 2
    /\ tokenize_len(snippets[1]) = 3
    /\ SingleTokenWords(snippets[1])
    /\ Len(chunks) = 2

\* C10: when the loop reaches an oversized block with a non-empty buffer, the
\* buffer is emitted as the next chunk, ahead of the block's sub-chunks, and
\* is empty afterwards.
C10_FlushBeforeOversized ==
    [][(/\ chunk_pc = "loop"
        /\ snip_i <= Len(snippets)
        /\ tokenize_len(snippets[snip_i]) > limit
        /\ buf # <<>>
        /\ snip_i' = snip_i + 1)
       => (/\ buf' = <<>>
           /\ Len(chunks') > Len(chunks)
           /\ chunks'[Len(chunks) + 1] = Strip(Join(buf, <<" ">>)))]_vars

-----------------------------------------------------------------------------
(* same_domain_links *)

StartUrls == {Url("http", "h", ""), Url("http", "h", "/"), Url("http", "h", "/a")}

Hrefs ==
    { Url("", "", ""), Url("", "", "/a"), Url("", "", "/b"), Url("", "", "b"),
      Url("http", "h", "/a"), Url("https", "h", "/a"), Url("http", "x", "/a"),
      Url("mailto", "", "b") }

\* urllib.parse.urljoin(base, href): an empty reference is the base; a
\* reference with a scheme or a netloc keeps its own location; a path
\* replaces the base's path, a relative one after the base's directory (every
\* base path here lies in the root directory)
urljoin(base, href) ==
    IF href = Url("", "", "") THEN base
    ELSE IF href.scheme # "" THEN href
    ELSE IF href.netloc # "" THEN Url(base.scheme, href.netloc, href.path)
    ELSE IF href.path = "b" THEN Url(base.scheme, base.netloc, "/b")
    ELSE Url(base.scheme, base.netloc, href.path)

\* line 185
SameDomain(u, origin) == u.scheme \in {"http", "https"} /\ u.netloc = origin.netloc

\* line 186
IsNewLinkAlways(href, known) == TRUE

IsNewLink(href, known) == href \notin known

\* lines 181-189 as one function of the anchors: the loop from anchor i on
RECURSIVE LinkLoop(_, _, _, _, _, _)
LinkLoop(start, hrefs, i, known, queue, lim) ==
    IF i > Len(hrefs) \/ Cardinality(known) >= lim THEN queue
    ELSE LET href == urljoin(start, hrefs[i])
             add == SameDomain(href, start) /\ IsNewLink(href, known)
             known2 == IF add THEN known \cup {href} ELSE known
             queue2 == IF add THEN Append(queue, href) ELSE queue
         IN  IF Len(queue2) >= lim THEN queue2
             ELSE LinkLoop(start, hrefs, i + 1, known2, queue2, lim)

same_domain_links(start, hrefs, lim) == LinkLoop(start, hrefs, 1, {start}, <<start>>, lim)

AnchorLists == UNION {[1..k -> Hrefs] : k \in 0..MaxAnchors}

\* lines 177-180, for every argument of the call
LinksInit ==
    /\ start_url \in StartUrls
    /\ anchors \in AnchorLists
    /\ page_limit \in 0..MaxBudget
    /\ anchor_i = 1
    /\ seen = {start_url}
    /\ q = <<start_url>>
    /\ links_pc = "loop"
    \* the other components are idle
    /\ snippets = <<>> /\ limit = 1 /\ snip_i = 1 /\ chunks = <<>> /\ buf = <<>>
    /\ buf_tokens = 0 /\ chunk_pc = "idle" /\ chunk_src = <<>> /\ buf_src = {}
    /\ matches = <<>> /\ top_k = 1 /\ rank_i = 1 /\ seen_keys = {} /\ uniq = <<>>
    /\ rank_pc = "idle"
    /\ index_exists = FALSE /\ store = {} /\ call_no = 1 /\ pc = "idle"
    /\ req_url = Url("http", "h", "/") /\ start_html = NoHtml /\ urls = <<>>
    /\ url_i = 1 /\ results = <<>> /\ response = <<>> /\ fail_at = "none"
    /\ fetches = <<>> /\ upserts = <<>> /\ indexed = <<>> /\ store_failed = <<>>
    /\ pages_failed = {} /\ pages_ok = {}

\* line 182: the budget is used up before the anchor is looked at
LinkBudgetReached ==
    /\ links_pc = "loop"
    /\ anchor_i <= Len(anchors)
    /\ Cardinality(seen) >= page_limit
    /\ links_pc' = "done"
    /\ UNCHANGED <<start_url, anchors, page_limit, anchor_i, seen, q>>
    /\ UNCHANGED <<chunker_vars, rank_vars, search_vars>>

\* lines 183-188: a same-domain target not met before is queued
LinkAdd ==
    /\ links_pc = "loop"
    /\ anchor_i <= Len(anchors)
    /\ ~(Cardinality(seen) >= page_limit)
    /\ LET href == urljoin(start_url, anchors[anchor_i])
       IN  /\ SameDomain(href, start_url)
           /\ IsNewLink(href, seen)
           /\ seen' = seen \cup {href}
           /\ q' = Append(q, href)
    /\ IF Len(q') >= page_limit
       THEN links_pc' = "done" /\ anchor_i' = anchor_i
       ELSE links_pc' = "loop" /\ anchor_i' = anchor_i + 1
    /\ UNCHANGED <<start_url, anchors, page_limit>>
    /\ UNCHANGED <<chunker_vars, rank_vars, search_vars>>

\* lines 183-188: any other target is passed over
LinkSkip ==
    /\ links_pc = "loop"
    /\ anchor_i <= Len(anchors)
    /\ ~(Cardinality(seen) >= page_limit)
    /\ LET href == urljoin(start_url, anchors[anchor_i])
       IN  ~(SameDomain(href, start_url) /\ IsNewLink(href, seen))
    /\ IF Len(q) >= page_limit
       THEN links_pc' = "done" /\ anchor_i' = anchor_i
       ELSE links_pc' = "loop" /\ anchor_i' = anchor_i + 1
    /\ UNCHANGED <<start_url, anchors, page_limit, seen, q>>
    /\ UNCHANGED <<chunker_vars, rank_vars, search_vars>>

\* line 189: the anchors are exhausted
LinksReturn ==
    /\ links_pc = "loop"
    /\ anchor_i > Len(anchors)
    /\ links_pc' = "done"
    /\ UNCHANGED <<start_url, anchors, page_limit, anchor_i, seen, q>>
    /\ UNCHANGED <<chunker_vars, rank_vars, search_vars>>

LinksNext == LinkBudgetReached \/ LinkAdd \/ LinkSkip \/ LinksReturn

-----------------------------------------------------------------------------
(* Properties of the link discoverer *)

Occurrences(s, x) == Cardinality({i \in 1..Len(s) : s[i] = x})

\* C6 as claimed: for every page budget the returned list has at most that
\* many entries, starts with the start URL and holds it exactly once.
C6_AnyBudget ==
    links_pc = "done" =>
        /\ Len(q) <= page_limit
        /\ q[1] = start_url
        /\ Occurrences(q, start_url) = 1

\* C6 amended: for every page budget of at least one the returned list has at
\* most that many entries, and for every page budget it starts with the start
\* URL and holds it exactly once.
C6_PositiveBudget ==
    links_pc = "done" =>
        /\ page_limit >= 1 => Len(q) <= page_limit
        /\ q[1] = start_url
        /\ Occurrences(q, start_url) = 1

\* the budget cut the list short of an anchor, and an anchor that resolves to
\* the start URL was passed over
C6_Witness ==
    /\ links_pc = "done"
    /\ page_limit >= 2
    /\ Len(q) = page_limit
    /\ anchor_i < Len(anchors)
    /\ \E i \in 1..anchor_i : urljoin(start_url, anchors[i]) = start_url

-----------------------------------------------------------------------------
(* search_top_k, lines 154-173: the ranked matches of the store, deduplicated *)

\* fragment contents: none, two that agree on the prefix, two that do not
Contents == {<<>>, <<"a", "b">>, <<"a", "b", "c">>, <<"b">>, <<"c">>}

\* line 169: r["chunk_html"][:200]
DedupKeyWhole(chunk_html) == chunk_html

DedupKey(chunk_html) == SubSeq(chunk_html, 1, Min(Len(chunk_html), PrefixLen))

\* line 170
Keeps(chunk_html, known) == DedupKey(chunk_html) \notin known /\ chunk_html # <<>>

\* line 172
EnoughLate(n, k) == n > k

Enough(n, k) == n >= k

\* lines 167-173 as one function of the contents of the matches: the ranks
\* of the results kept, from match i on
RECURSIVE DedupLoop(_, _, _, _, _)
DedupLoop(htmls, i, known, kept, k) ==
    IF i > Len(htmls) THEN kept
    ELSE LET keep == Keeps(htmls[i], known)
             known2 == IF keep THEN known \cup {DedupKey(htmls[i])} ELSE known
             kept2 == IF keep THEN Append(kept, i) ELSE kept
         IN  IF Enough(Len(kept2), k) THEN kept2
             ELSE DedupLoop(htmls, i + 1, known2, kept2, k)

\* lines 149-153: the store answers a query for top_k * 3 neighbours with at
\* most that many matches, in its ranking order
MatchLists(k) == UNION {[1..n -> Contents] : n \in 0..Min(k * 3, MaxMatches)}

RankInit ==
    /\ top_k \in 0..MaxTopK
    /\ matches \in MatchLists(top_k)
    /\ rank_i = 1
    /\ seen_keys = {}
    /\ uniq = <<>>
    /\ rank_pc = "loop"
    \* the other components are idle
    /\ snippets = <<>> /\ limit = 1 /\ snip_i = 1 /\ chunks = <<>> /\ buf = <<>>
    /\ buf_tokens = 0 /\ chunk_pc = "idle" /\ chunk_src = <<>> /\ buf_src = {}
    /\ start_url = Url("http", "h", "/") /\ anchors = <<>> /\ page_limit = 1
    /\ anchor_i = 1 /\ seen = {} /\ q = <<>> /\ links_pc = "idle"
    /\ index_exists = FALSE /\ store = {} /\ call_no = 1 /\ pc = "idle"
    /\ req_url = Url("http", "h", "/") /\ start_html = NoHtml /\ urls = <<>>
    /\ url_i = 1 /\ results = <<>> /\ response = <<>> /\ fail_at = "none"
    /\ fetches = <<>> /\ upserts = <<>> /\ indexed = <<>> /\ store_failed = <<>>
    /\ pages_failed = {} /\ pages_ok = {}

\* lines 169-172: the result is kept
RankKeep ==
    /\ rank_pc = "loop"
    /\ rank_i <= Len(matches)
    /\ LET html == matches[rank_i]
           k == DedupKey(html)
       IN  /\ Keeps(html, seen_keys)
           /\ uniq' = Append(uniq, [rank |-> rank_i, chunk_html |-> html])
           /\ seen_keys' = seen_keys \cup {k}
    /\ IF Enough(Len(uniq'), top_k)
       THEN rank_pc' = "done" /\ rank_i' = rank_i
       ELSE rank_pc' = "loop" /\ rank_i' = rank_i + 1
    /\ UNCHANGED <<matches, top_k>>
    /\ UNCHANGED <<chunker_vars, links_vars, search_vars>>

\* lines 169-172: the result is a duplicate or has no content
RankDrop ==
    /\ rank_pc = "loop"
    /\ rank_i <= Len(matches)
    /\ LET html == matches[rank_i]
           k == DedupKey(html)
       IN  ~Keeps(html, seen_keys)
    /\ IF Enough(Len(uniq), top_k)
       THEN rank_pc' = "done" /\ rank_i' = rank_i
       ELSE rank_pc' = "loop" /\ rank_i' = rank_i + 1
    /\ UNCHANGED <<matches, top_k, seen_keys, uniq>>
    /\ UNCHANGED <<chunker_vars, links_vars, search_vars>>

\* line 173: the matches are exhausted
RankReturn ==
    /\ rank_pc = "loop"
    /\ rank_i > Len(matches)
    /\ rank_pc' = "done"
    /\ UNCHANGED <<matches, top_k, rank_i, seen_keys, uniq>>
    /\ UNCHANGED <<chunker_vars, links_vars, search_vars>>

RankNext == RankKeep \/ RankDrop \/ RankReturn

-----------------------------------------------------------------------------
(* Properties of the retriever *)

\* the first 200 characters of a fragment's content, at the model's scale
Prefix(chunk_html) ==
    [i \in 1..Min(Len(chunk_html), PrefixLen) |-> chunk_html[i]]

\* C7: no two results agree on the prefix of their content, no result has
\* empty content, and every result is the first match of its prefix in the
\* store's ranking.
C7_DedupByPrefix ==
    /\ \A i, j \in 1..Len(uniq) :
           i # j => Prefix(uniq[i].chunk_html) # Prefix(uniq[j].chunk_html)
    /\ \A i \in 1..Len(uniq) : uniq[i].chunk_html # <<>>
    /\ \A i \in 1..Len(uniq) : \A j \in 1..(uniq[i].rank - 1) :
           Prefix(matches[j]) # Prefix(uniq[i].chunk_html)

\* a match with another content but the prefix of a kept result, and a match
\* without content, were both dropped
C7_Witness ==
    /\ rank_pc = "done"
    /\ Len(uniq) = 2
    /\ \E i \in 1..Len(uniq), j \in 1..Len(matches) :
           /\ j > uniq[i].rank
           /\ j < rank_i
           /\ matches[j] # uniq[i].chunk_html
           /\ Prefix(matches[j]) = Prefix(uniq[i].chunk_html)
    /\ \E j \in 1..(rank_i - 1) : matches[j] = <<>>

\* C8: at most top_k results are returned, in the store's ranking order.
C8_TopKInRankOrder ==
    /\ Len(uniq) <= top_k
    /\ \A i, j \in 1..Len(uniq) : i < j => uniq[i].rank < uniq[j].rank
    /\ \A i \in 1..Len(uniq) : uniq[i].chunk_html = matches[uniq[i].rank]

\* the list was cut at top_k with a further distinct match left behind it
C8_Witness ==
    /\ rank_pc = "done"
    /\ top_k = 2
    /\ Len(uniq) = top_k
    /\ \E j \in (rank_i + 1)..Len(matches) :
           /\ matches[j] # <<>>
           /\ \A i \in 1..Len(uniq) : Prefix(matches[j]) # Prefix(uniq[i].chunk_html)

-----------------------------------------------------------------------------
(* The vector store, the web and the /search handler (lines 195-226) *)

\* line 204
SiteId(u) == [scheme |-> u.scheme, netloc |-> u.netloc]

\* lines 133-143: a stored vector with its metadata; line 132 derives its id
\* from the page URL and the chunk's position
Rec(site, page, i, html) ==
    [site_id |-> site, page_url |-> page, i |-> i, chunk_html |-> html]

VecId(r) == <<r.page_url, r.i>>

\* the URLs a request can name, all of one site
ReqUrls == {Url("http", "h", "/"), Url("http", "h", "/a")}

\* what the store can hold before the first request: nothing, a chunk of
\* another site, or a chunk of this site from an earlier run
InitialStores ==
    { {},
      {Rec(SiteId(Url("http", "x", "/")), Url("http", "x", "/"), 0, <<"a">>)},
      {Rec(SiteId(Url("http", "h", "/")), Url("http", "h", "/"), 0, <<"a">>)} }

\* A fetched page, by what the parser makes of it: the targets of its
\* anchors, the blocks clean_html_and_get_dom_chunks returns for it (lines
\* 76-90: whitespace-normalised, non-empty), or a parse that raises.
Htmls ==
    { [anchors |-> a, snippets |-> b, broken |-> FALSE] :
        a \in { <<>>,
                <<Url("", "", "/a"), Url("", "", "/b")>>,
                <<Url("", "", "/b"), Url("http", "x", "/a"), Url("", "", "")>> },
        b \in { <<>>,
                << <<"a", " ", "a">> >>,
                << <<"a", " ", "a">>, <<"a", ".", "a">> >> } }
    \cup { [anchors |-> <<>>, snippets |-> <<>>, broken |-> TRUE] }

\* line 151: the metadata filter of the query
SiteRecordsUnfiltered(site) == store

SiteRecords(site) == {r \in store : r.site_id = site}

\* lines 149-153: the store's answer to a query for n neighbours: the site's
\* records, n at most, ranked by a similarity the model leaves open
QueryAnswers(site, n) ==
    LET recs == SiteRecords(site)
        m == Min(n, Cardinality(recs))
    IN  {a \in [1..m -> recs] : \A i, j \in 1..m : i # j => a[i] # a[j]}

\* lines 154-173 applied to an answer of the store
search_top_k(answer, k) ==
    LET htmls == [i \in 1..Len(answer) |-> answer[i].chunk_html]
        kept == DedupLoop(htmls, 1, {}, <<>>, k)
    IN  [j \in 1..Len(kept) |-> answer[kept[j]]]

\* line 210
NotIndexedAlways(probe) == TRUE

NotIndexed(probe) == probe = <<>>

\* lines 127-144: the records of one page's chunks
PageRecords(site, page, cs) == {Rec(site, page, i - 1, cs[i]) : i \in 1..Len(cs)}

\* line 144: records with the ids of new ones are replaced
Upserted(old, new) ==
    {r \in old : \A n \in new : VecId(r) # VecId(n)} \cup new

SearchInit ==
    /\ store \in InitialStores
    /\ index_exists = (store # {})
    /\ call_no = 1
    /\ pc = "ensure"
    /\ req_url \in ReqUrls
    /\ start_html = NoHtml
    /\ urls = <<>>
    /\ url_i = 1
    /\ results = <<>>
    /\ response = [c \in 1..MaxCalls |-> "none"]
    /\ fail_at = "none"
    /\ fetches = [c \in 1..MaxCalls |-> 0]
    /\ upserts = [c \in 1..MaxCalls |-> 0]
    /\ indexed = [c \in 1..MaxCalls |-> FALSE]
    /\ store_failed = [c \in 1..MaxCalls |-> FALSE]
    /\ pages_failed = {}
    /\ pages_ok = {}
    \* the other components are idle
    /\ snippets = <<>> /\ limit = 1 /\ snip_i = 1 /\ chunks = <<>> /\ buf = <<>>
    /\ buf_tokens = 0 /\ chunk_pc = "idle" /\ chunk_src = <<>> /\ buf_src = {}
    /\ start_url = Url("http", "h", "/") /\ anchors = <<>> /\ page_limit = 1
    /\ anchor_i = 1 /\ seen = {} /\ q = <<>> /\ links_pc = "idle"
    /\ matches = <<>> /\ top_k = 1 /\ rank_i = 1 /\ seen_keys = {} /\ uniq = <<>>
    /\ rank_pc = "idle"

Ghosts == <<fetches, upserts, indexed, store_failed, pages_failed, pages_ok>>
Locals == <<start_html, urls, url_i, results>>

\* an exception leaves the handler: the caller gets a failure response
Raise(where) ==
    /\ pc' = "done"
    /\ response' = [response EXCEPT ![call_no] = "failure"]
    /\ fail_at' = where

StoreRaise(where) ==
    /\ Raise(where)
    /\ store_failed' = [store_failed EXCEPT ![call_no] = TRUE]

\* line 200
EnsureIndex ==
    /\ pc = "ensure"
    /\ index_exists' = TRUE
    /\ pc' = "probe"
    /\ UNCHANGED <<store, call_no, req_url, Locals, response, fail_at, Ghosts>>
    /\ UNCHANGED <<chunker_vars, links_vars, rank_vars>>

\* lines 200, 206: the store client cannot be built or the index call raises
EnsureIndexFails ==
    /\ pc = "ensure"
    /\ StoreRaise("ensure")
    /\ UNCHANGED <<index_exists, store, call_no, req_url, Locals>>
    /\ UNCHANGED <<fetches, upserts, indexed, pages_failed, pages_ok>>
    /\ UNCHANGED <<chunker_vars, links_vars, rank_vars>>

\* lines 209-210: the probe finds a chunk of the site
ProbeHit ==
    /\ pc = "probe"
    /\ \E answer \in QueryAnswers(SiteId(req_url), 1 * 3) :
           ~NotIndexed(search_top_k(answer, 1))
    /\ pc' = "query"
    /\ UNCHANGED <<index_exists, store, call_no, req_url, Locals, response, fail_at,
                   Ghosts>>
    /\ UNCHANGED <<chunker_vars, links_vars, rank_vars>>

\* lines 209-210: the probe finds nothing; an indexing pass begins
ProbeMiss ==
    /\ pc = "probe"
    /\ \E answer \in QueryAnswers(SiteId(req_url), 1 * 3) :
           NotIndexed(search_top_k(answer, 1))
    /\ pc' = "fetch"
    /\ indexed' = [indexed EXCEPT ![call_no] = TRUE]
    /\ UNCHANGED <<index_exists, store, call_no, req_url, Locals, response, fail_at>>
    /\ UNCHANGED <<fetches, upserts, store_failed, pages_failed, pages_ok>>
    /\ UNCHANGED <<chunker_vars, links_vars, rank_vars>>

\* line 209: the probe's query raises
ProbeFails ==
    /\ pc = "probe"
    /\ StoreRaise("probe")
    /\ UNCHANGED <<index_exists, store, call_no, req_url, Locals>>
    /\ UNCHANGED <<fetches, upserts, indexed, pages_failed, pages_ok>>
    /\ UNCHANGED <<chunker_vars, links_vars, rank_vars>>

\* lines 212-213: the start page is fetched and its links are discovered
FetchStart ==
    /\ pc = "fetch"
    /\ \E html \in Htmls :
           /\ ~html.broken
           /\ start_html' = html
           /\ urls' = same_domain_links(req_url, html.anchors, MAX_PAGES)
    /\ url_i' = 1
    /\ pc' = "pages"
    /\ fetches' = [fetches EXCEPT ![call_no] = @ + 1]
    /\ UNCHANGED <<index_exists, store, call_no, req_url, results, response, fail_at>>
    /\ UNCHANGED <<upserts, indexed, store_failed, pages_failed, pages_ok>>
    /\ UNCHANGED <<chunker_vars, links_vars, rank_vars>>

\* line 212: the fetch of the start page raises, outside the per-page try
FetchStartFails ==
    /\ pc = "fetch"
    /\ Raise("fetch_start")
    /\ fetches' = [fetches EXCEPT ![call_no] = @ + 1]
    /\ UNCHANGED <<index_exists, store, call_no, req_url, Locals>>
    /\ UNCHANGED <<upserts, indexed, store_failed, pages_failed, pages_ok>>
    /\ UNCHANGED <<chunker_vars, links_vars, rank_vars>>

\* lines 212-213, 177: the start page cannot be parsed for its links
StartPageUnparsable ==
    /\ pc = "fetch"
    /\ \E html \in Htmls : html.broken
    /\ Raise("parse_start")
    /\ fetches' = [fetches EXCEPT ![call_no] = @ + 1]
    /\ UNCHANGED <<index_exists, store, call_no, req_url, Locals>>
    /\ UNCHANGED <<upserts, indexed, store_failed, pages_failed, pages_ok>>
    /\ UNCHANGED <<chunker_vars, links_vars, rank_vars>>

\* line 216: the start page's HTML is reused, any other page is fetched
PageHtmls == IF urls[url_i] = req_url THEN {start_html} ELSE Htmls

PageFetched ==
    fetches' = IF urls[url_i] = req_url THEN fetches
               ELSE [fetches EXCEPT ![call_no] = @ + 1]

\* line 214: on to the next page, or out of the loop
NextPage ==
    /\ url_i' = url_i + 1
    /\ pc' = IF url_i + 1 > Len(urls) THEN "query" ELSE "pages"

\* lines 216, 222-223 as a fetch failure that leaves the handler
PageFetchFailsAborting ==
    /\ pc = "pages"
    /\ urls[url_i] # req_url
    /\ fetches' = [fetches EXCEPT ![call_no] = @ + 1]
    /\ pages_failed' = pages_failed \cup {<<urls[url_i], "fetch">>}
    /\ Raise("page")
    /\ UNCHANGED <<index_exists, store, call_no, req_url, Locals>>
    /\ UNCHANGED <<upserts, indexed, store_failed, pages_ok>>
    /\ UNCHANGED <<chunker_vars, links_vars, rank_vars>>

\* lines 216, 222-223: the fetch of a linked page raises; the page is skipped
PageFetchFails ==
    /\ pc = "pages"
    /\ urls[url_i] # req_url
    /\ fetches' = [fetches EXCEPT ![call_no] = @ + 1]
    /\ pages_failed' = pages_failed \cup {<<urls[url_i], "fetch">>}
    /\ NextPage
    /\ UNCHANGED <<index_exists, store, call_no, req_url, start_html, urls, results,
                   response, fail_at>>
    /\ UNCHANGED <<upserts, indexed, store_failed, pages_ok>>
    /\ UNCHANGED <<chunker_vars, links_vars, rank_vars>>

\* lines 217-218, 222-223: the page cannot be parsed; the page is skipped
PageExtractFails ==
    /\ pc = "pages"
    /\ \E html \in PageHtmls : html.broken
    /\ PageFetched
    /\ pages_failed' = pages_failed \cup {<<urls[url_i], "extract">>}
    /\ NextPage
    /\ UNCHANGED <<index_exists, store, call_no, req_url, start_html, urls, results,
                   response, fail_at>>
    /\ UNCHANGED <<upserts, indexed, store_failed, pages_ok>>
    /\ UNCHANGED <<chunker_vars, links_vars, rank_vars>>

\* lines 216-220: the page yields no chunk; nothing is upserted
PageEmpty ==
    /\ pc = "pages"
    /\ \E html \in PageHtmls :
           /\ ~html.broken
           /\ chunk_by_token_limit(html.snippets, CHUNK_TOKEN_LIMIT) = <<>>
    /\ PageFetched
    /\ NextPage
    /\ UNCHANGED <<index_exists, store, call_no, req_url, start_html, urls, results,
                   response, fail_at>>
    /\ UNCHANGED <<upserts, indexed, store_failed, pages_failed, pages_ok>>
    /\ UNCHANGED <<chunker_vars, links_vars, rank_vars>>

\* lines 216-221: the page's chunks are upserted under the site's id
PageUpsert ==
    /\ pc = "pages"
    /\ \E html \in PageHtmls :
           LET cs == chunk_by_token_limit(html.snippets, CHUNK_TOKEN_LIMIT)
           IN  /\ ~html.broken
               /\ cs # <<>>
               /\ store' = Upserted(store, PageRecords(SiteId(req_url), urls[url_i], cs))
               /\ pages_ok' = pages_ok \cup {[page_url |-> urls[url_i], chunks |-> cs]}
    /\ PageFetched
    /\ upserts' = [upserts EXCEPT ![call_no] = @ + 1]
    /\ NextPage
    /\ UNCHANGED <<index_exists, call_no, req_url, start_html, urls, results,
                   response, fail_at>>
    /\ UNCHANGED <<indexed, store_failed, pages_failed>>
    /\ UNCHANGED <<chunker_vars, links_vars, rank_vars>>

\* lines 221-223: the upsert raises inside the per-page try; the exception
\* is swallowed and the loop goes on
PageUpsertFails ==
    /\ pc = "pages"
    /\ \E html \in PageHtmls :
           /\ ~html.broken
           /\ chunk_by_token_limit(html.snippets, CHUNK_TOKEN_LIMIT) # <<>>
    /\ PageFetched
    /\ store_failed' = [store_failed EXCEPT ![call_no] = TRUE]
    /\ NextPage
    /\ UNCHANGED <<index_exists, store, call_no, req_url, start_html, urls, results,
                   response, fail_at>>
    /\ UNCHANGED <<upserts, indexed, pages_failed, pages_ok>>
    /\ UNCHANGED <<chunker_vars, links_vars, rank_vars>>

\* lines 225-226: the query proper; the handler returns its results
Query ==
    /\ pc = "query"
    /\ \E answer \in QueryAnswers(SiteId(req_url), TOP_K * 3) :
           results' = search_top_k(answer, TOP_K)
    /\ response' = [response EXCEPT ![call_no] = "results"]
    /\ pc' = "done"
    /\ UNCHANGED <<index_exists, store, call_no, req_url, start_html, urls, url_i,
                   fail_at, Ghosts>>
    /\ UNCHANGED <<chunker_vars, links_vars, rank_vars>>

\* line 225: the query raises
QueryFails ==
    /\ pc = "query"
    /\ StoreRaise("query")
    /\ UNCHANGED <<index_exists, store, call_no, req_url, Locals>>
    /\ UNCHANGED <<fetches, upserts, indexed, pages_failed, pages_ok>>
    /\ UNCHANGED <<chunker_vars, links_vars, rank_vars>>

\* the next request for the site arrives; only the store outlives a request
NextRequest ==
    /\ pc = "done"
    /\ call_no < MaxCalls
    /\ call_no' = call_no + 1
    /\ pc' = "ensure"
    /\ req_url' \in ReqUrls
    /\ start_html' = NoHtml
    /\ urls' = <<>>
    /\ url_i' = 1
    /\ results' = <<>>
    /\ fail_at' = "none"
    /\ pages_failed' = {}
    /\ pages_ok' = {}
    /\ UNCHANGED <<index_exists, store, response, fetches, upserts, indexed,
                   store_failed>>
    /\ UNCHANGED <<chunker_vars, links_vars, rank_vars>>

SearchNext ==
    \/ EnsureIndex \/ EnsureIndexFails
    \/ ProbeHit \/ ProbeMiss \/ ProbeFails
    \/ FetchStart \/ FetchStartFails \/ StartPageUnparsable
    \/ PageFetchFails \/ PageExtractFails \/ PageEmpty \/ PageUpsert
    \/ PageUpsertFails
    \/ Query \/ QueryFails
    \/ NextRequest

-----------------------------------------------------------------------------
(* Properties of the /search handler *)

\* C3 as claimed: of two successive requests for a site that both return
\* results with no store failure, the first of which runs an indexing pass,
\* the second runs none: it fetches nothing and upserts nothing.
C3_SecondCallNeverIndexes ==
    (/\ call_no = 2
     /\ pc = "done"
     /\ indexed[1]
     /\ response[1] = "results" /\ response[2] = "results"
     /\ ~store_failed[1] /\ ~store_failed[2])
    => (~indexed[2] /\ fetches[2] = 0 /\ upserts[2] = 0)

\* C3 amended: once a request has upserted a chunk for the site, no later
\* request for the site runs an indexing pass: it fetches nothing and upserts
\* nothing.
C3_NoPassOnceStored ==
    \A c1, c2 \in 1..call_no :
        (c1 < c2 /\ upserts[c1] >= 1) =>
            (indexed[c1] /\ ~indexed[c2] /\ fetches[c2] = 0 /\ upserts[c2] = 0)

\* the first request indexed two pages, the second returned results
C3_Witness ==
    /\ call_no = 2
    /\ pc = "done"
    /\ upserts[1] = 2
    /\ fetches[1] >= 2
    /\ response[2] = "results"
    /\ results # <<>>

\* the records of the pages indexed by this request are in the store
PagesStored ==
    \A p \in pages_ok :
        PageRecords(SiteId(req_url), p.page_url, p.chunks) \subseteq store

\* C4: when a linked page fails to fetch or to parse during an indexing run,
\* the loop still visits every page of the crawl list and the request is
\* failed by nothing but the store's answer to its final query; every page
\* that was indexed is in the store, and when the start page is among them
\* the request returns at least one result.
C4_PageFailureIsolated ==
    (pc = "done" /\ pages_failed # {}) =>
        /\ fail_at \in {"none", "query"}
        /\ url_i = Len(urls) + 1
        /\ PagesStored
        /\ fail_at = "none" =>
               /\ response[call_no] = "results"
               /\ (\E p \in pages_ok : p.page_url = req_url) => results # <<>>

\* two linked pages failed, one to fetch and one to parse; the start page was
\* indexed and the request returned its chunks
C4_Witness ==
    /\ pc = "done"
    /\ Cardinality(pages_failed) = 2
    /\ \E f1, f2 \in pages_failed : f1[2] = "fetch" /\ f2[2] = "extract"
    /\ pages_ok # {}
    /\ \A p \in pages_ok : p.page_url = req_url
    /\ response[call_no] = "results"
    /\ results # <<>>

\* C5: a request in which a store operation raised ends in a failure response.
C5_StoreFailurePropagates ==
    (pc = "done" /\ store_failed[call_no]) => response[call_no] = "failure"

-----------------------------------------------------------------------------
(* Specifications *)

SpecChunker == ChunkerInit /\ [][ChunkerNext]_vars

SpecLinks == LinksInit /\ [][LinksNext]_vars

SpecRetriever == RankInit /\ [][RankNext]_vars

SpecSearch == SearchInit /\ [][SearchNext]_vars

====
